---------------------------- MODULE Spec2Model ----------------------------
(***************************************************************************)
(* Model of the brand front-end: the map picker of src/index.js            *)
(* (prompt_coords, its one-shot click handler update_exposure, set_marker, *)
(* the raw file-handle accessors) and the worker bridges of src/index.js   *)
(* and src/src/worker.js.                                                  *)
(***************************************************************************)
EXTENDS Integers, Sequences, FiniteSets, TLC

VARIABLES
    hidden,       \* "hidden" is in the class list of the #map element
    marker,       \* the global `marker` (index.js:2)
    layers,       \* the marker layers currently added to the Leaflet map
    listeners,    \* the map's 'click' listeners, in registration order
    nFired,       \* number of setTimeout callbacks that have run
    calls,        \* the calls made to window.wasmBindings.update_coords
    filehandles,  \* the global `filehandles` (index.js:4)
    ret,          \* the value returned by the last get_raw_handles()
    nPrompt,      \* number of prompt_coords calls so far (closure identity)
    nMarker,      \* number of L.marker objects created so far (object identity)
    lastOp,       \* the last operation performed on the page (observer)
    variant,      \* which of the three worker scripts runs in the worker
    onmessage,    \* the worker's current self.onmessage binding
    inbox,        \* messages posted to the worker, not yet delivered
    tasks,        \* one entry per invocation of the async wrapper
    outbox,       \* messages the worker posted back, in posting order
    direct,       \* events handed straight to wasm.handle_message (rebound)
    nInit         \* number of init() instantiations started

uiVars == <<hidden, marker, layers, listeners, nFired, calls,
            filehandles, ret, nPrompt, nMarker, lastOp>>
wkVars == <<variant, onmessage, inbox, tasks, outbox, direct, nInit>>
vars == <<hidden, marker, layers, listeners, nFired, calls,
          filehandles, ret, nPrompt, nMarker, lastOp,
          variant, onmessage, inbox, tasks, outbox, direct, nInit>>

---------------------------------------------------------------------------
(* Bounds of the model. *)

MaxPrompts == 3
MaxMarkers == 2
MaxCalls == 3
MaxMsgs == 3

(* The number of fraction digits asked of toFixed (index.js:32). *)
FractionDigits == 8

---------------------------------------------------------------------------
(* Numbers.  A latitude or longitude is a double; the model draws them     *)
(* from dyadic rationals (-1)^neg * (int + num / 2^bits), which doubles    *)
(* represent exactly, so that toFixed can be computed on the exact value.  *)

RECURSIVE Pow(_, _)
Pow(b, k) == IF k = 0 THEN 1 ELSE b * Pow(b, k - 1)

Num(neg, int, num, bits) == [neg |-> neg, int |-> int, num |-> num, bits |-> bits]

IsNegative(x) == x.neg /\ (x.int # 0 \/ x.num # 0)

RECURSIVE Digits(_)
Digits(n) == IF n < 10 THEN 1 ELSE 1 + Digits(n \div 10)

RECURSIVE Zeros(_)
Zeros(k) == IF k <= 0 THEN "" ELSE "0" \o Zeros(k - 1)

(* The fraction of x in units of 10^-FractionDigits, rounded to the        *)
(* nearest integer, the larger one on a tie (Number.prototype.toFixed:     *)
(* "let n be an integer for which n / 10^f - x is as close to zero as      *)
(* possible; if there are two such n, pick the larger n").                 *)
(* num * 10^f / 2^bits = num * 5^f / 2^(bits - f), for bits >= f.          *)
RoundedFractionTruncated(x) ==
    LET scale == Pow(5, FractionDigits)
        den   == Pow(2, x.bits - FractionDigits)
    IN  (x.num * scale) \div den

RoundedFraction(x) ==
    LET scale == Pow(5, FractionDigits)
        den   == Pow(2, x.bits - FractionDigits)
    IN  (2 * x.num * scale + den) \div (2 * den)

(* lat.toFixed(8): sign, integer digits, ".", exactly 8 fraction digits.   *)
toFixed(x) ==
    LET one  == Pow(10, FractionDigits)
        q    == RoundedFraction(x)
        ip   == IF q = one THEN x.int + 1 ELSE x.int
        fr   == IF q = one THEN 0 ELSE q
    IN  (IF IsNegative(x) THEN "-" ELSE "")
            \o ToString(ip) \o "."
            \o Zeros(FractionDigits - Digits(fr)) \o ToString(fr)

---------------------------------------------------------------------------
(* Inputs. *)

Indexes == {0, 1}

(* e.latlng of a click: 48.857421875 / 2.3525390625 and                    *)
(* -33.0029296875 / -0.001953125.                                          *)
Clicks ==
    { [lat |-> Num(FALSE, 48, 439, 9),  lng |-> Num(FALSE, 2, 361, 10)],
      [lat |-> Num(TRUE, 33, 3, 10),    lng |-> Num(TRUE, 0, 1, 9)] }

(* Arguments of set_marker. *)
MarkerCoords == { <<48, 2>>, <<-33, -70>> }

(* Values of the handle mapping: new Map() and the mappings from some of   *)
(* the identifiers to file handles.                                        *)
EmptyMap == << >>
HandleMaps == UNION { [ks -> {"h1", "h2", "h3"}] : ks \in SUBSET {"a.jpg", "b.jpg"} }

NoMarker == [id |-> 0, lat |-> 0, lng |-> 0]

Op(name, args, ok) == [op |-> name, args |-> args, ok |-> ok]

---------------------------------------------------------------------------
(* The map picker (index.js:19-51). *)

removeLayerNoop(ls, m) == ls

(* map.removeLayer(m): a no-op when m is not on the map. *)
removeLayer(ls, m) == ls \ {m}

(* map.off('click', fn): removes the listener registered with that closure. *)
off(ls, h) == SelectSeq(ls, LAMBDA l : l.id # h.id)

(* The body of update_exposure (index.js:26-40) for closure h and click    *)
(* event e, as a function of the page state st; throws is whether the      *)
(* external update_coords call throws, which ends the handler at line 32.  *)
update_exposure_keep_listener(h, e, st, throws) ==
    LET called == [st EXCEPT !.calls = Append(@,
                      [index |-> h.index, lat |-> toFixed(e.lat),
                       lng |-> toFixed(e.lng), e |-> e, by |-> h.id])]
    IN  IF throws THEN [called EXCEPT !.threw = TRUE]
        ELSE [called EXCEPT
                !.layers = IF st.marker.id # 0 THEN removeLayer(@, st.marker) ELSE @,
                !.hidden = ~@]

update_exposure_keep_marker(h, e, st, throws) ==
    LET called == [st EXCEPT !.calls = Append(@,
                      [index |-> h.index, lat |-> toFixed(e.lat),
                       lng |-> toFixed(e.lng), e |-> e, by |-> h.id])]
    IN  IF throws THEN [called EXCEPT !.threw = TRUE]
        ELSE [called EXCEPT
                !.hidden = ~@,
                !.listeners = off(@, h)]

update_exposure_off_on_throw(h, e, st, throws) ==
    LET called == [st EXCEPT !.calls = Append(@,
                      [index |-> h.index, lat |-> toFixed(e.lat),
                       lng |-> toFixed(e.lng), e |-> e, by |-> h.id])]
    IN  IF throws THEN [called EXCEPT !.threw = TRUE, !.listeners = off(@, h)]
        ELSE [called EXCEPT
                !.layers = IF st.marker.id # 0 THEN removeLayer(@, st.marker) ELSE @,
                !.hidden = ~@,
                !.listeners = off(@, h)]

update_exposure(h, e, st, throws) ==
    LET called == [st EXCEPT !.calls = Append(@,
                      [index |-> h.index, lat |-> toFixed(e.lat),
                       lng |-> toFixed(e.lng), e |-> e, by |-> h.id])]
    IN  IF throws THEN [called EXCEPT !.threw = TRUE]
        ELSE [called EXCEPT
                !.layers = IF st.marker.id # 0 THEN removeLayer(@, st.marker) ELSE @,
                !.hidden = ~@,
                !.listeners = off(@, h)]

(* map.fire('click'): Leaflet calls the listeners registered when the      *)
(* event fires, in registration order; an exception thrown by a listener   *)
(* is not caught, so the listeners after it do not run.                    *)
RECURSIVE fire(_, _, _, _, _)
fire(snapshot, i, e, st, throwAt) ==
    IF i > Len(snapshot) \/ st.threw THEN st
    ELSE fire(snapshot, i + 1, e,
              update_exposure(snapshot[i], e, st, i = throwAt), throwAt)

PromptCoordsReplacing(index) ==
    /\ nPrompt < MaxPrompts
    /\ nPrompt' = nPrompt + 1
    /\ hidden' = ~hidden
    /\ listeners' = <<[id |-> nPrompt + 1, index |-> index, before |-> hidden]>>
    /\ lastOp' = Op("prompt_coords", <<index>>, TRUE)
    /\ UNCHANGED <<marker, layers, nFired, calls, filehandles, ret, nMarker>>
    /\ UNCHANGED wkVars

PromptCoordsDeferred(index) ==
    /\ nPrompt < MaxPrompts
    /\ nPrompt' = nPrompt + 1
    /\ hidden' = ~hidden
    /\ lastOp' = Op("prompt_coords", <<index>>, TRUE)
    /\ UNCHANGED <<marker, layers, listeners, nFired, calls, filehandles, ret, nMarker>>
    /\ UNCHANGED wkVars

PromptCoordsShows(index) ==
    /\ nPrompt < MaxPrompts
    /\ nPrompt' = nPrompt + 1
    /\ hidden' = FALSE
    /\ listeners' = Append(listeners,
                       [id |-> nPrompt + 1, index |-> index, before |-> hidden])
    /\ lastOp' = Op("prompt_coords", <<index>>, TRUE)
    /\ UNCHANGED <<marker, layers, nFired, calls, filehandles, ret, nMarker>>
    /\ UNCHANGED wkVars

PromptCoords(index) ==
    /\ nPrompt < MaxPrompts
    /\ nPrompt' = nPrompt + 1
    /\ hidden' = ~hidden
    /\ listeners' = Append(listeners,
                       [id |-> nPrompt + 1, index |-> index, before |-> hidden])
    /\ lastOp' = Op("prompt_coords", <<index>>, TRUE)
    /\ UNCHANGED <<marker, layers, nFired, calls, filehandles, ret, nMarker>>
    /\ UNCHANGED wkVars

(* The prompt_coords calls whose setTimeout callback is still pending, and *)
(* those whose callback has run map.invalidateSize().  Every call asks for *)
(* the same delay, so the callbacks run in the order they were set.        *)
timers == (nFired + 1)..nPrompt
sized == 1..nFired

(* The setTimeout callback of index.js:22-24, for the oldest pending call. *)
Timeout ==
    /\ timers # {}
    /\ nFired' = nFired + 1
    /\ UNCHANGED <<hidden, marker, layers, listeners, calls, filehandles, ret,
                   nPrompt, nMarker, lastOp>>
    /\ UNCHANGED wkVars

(* A click on the map at e; throwAt = 0 when no update_coords call throws, *)
(* else the position of the listener whose call throws.                    *)
Click(e, throwAt) ==
    LET st0 == [calls |-> calls, layers |-> layers, hidden |-> hidden,
                listeners |-> listeners, marker |-> marker, threw |-> FALSE]
        st1 == fire(listeners, 1, e, st0, throwAt)
    IN  /\ throwAt <= Len(listeners)
        /\ Len(calls) + Len(listeners) <= MaxCalls
        /\ calls' = st1.calls
        /\ layers' = st1.layers
        /\ hidden' = st1.hidden
        /\ listeners' = st1.listeners
        /\ lastOp' = Op("click", <<e>>, ~st1.threw)
        /\ UNCHANGED <<marker, nFired, filehandles, ret, nPrompt, nMarker>>
        /\ UNCHANGED wkVars

SetMarkerKeepPrevious(lat, lng) ==
    LET m == [id |-> nMarker + 1, lat |-> lat, lng |-> lng]
    IN  /\ nMarker < MaxMarkers
        /\ nMarker' = nMarker + 1
        /\ marker' = m
        /\ layers' = layers \cup {m}
        /\ lastOp' = Op("set_marker", <<lat, lng>>, TRUE)
        /\ UNCHANGED <<hidden, listeners, nFired, calls, filehandles, ret, nPrompt>>
        /\ UNCHANGED wkVars

SetMarker(lat, lng) ==
    LET m == [id |-> nMarker + 1, lat |-> lat, lng |-> lng]
    IN  /\ nMarker < MaxMarkers
        /\ nMarker' = nMarker + 1
        /\ marker' = m
        /\ layers' = (IF marker.id # 0 THEN removeLayer(layers, marker) ELSE layers)
                        \cup {m}
        /\ lastOp' = Op("set_marker", <<lat, lng>>, TRUE)
        /\ UNCHANGED <<hidden, listeners, nFired, calls, filehandles, ret, nPrompt>>
        /\ UNCHANGED wkVars

---------------------------------------------------------------------------
(* The raw file-handle accessors (index.js:53-59). *)

SetRawHandlesMerging(value) ==
    /\ filehandles' = value @@ filehandles
    /\ lastOp' = Op("set_raw_handles", <<value>>, TRUE)
    /\ UNCHANGED <<hidden, marker, layers, listeners, nFired, calls, ret,
                   nPrompt, nMarker>>
    /\ UNCHANGED wkVars

SetRawHandles(value) ==
    /\ filehandles' = value
    /\ lastOp' = Op("set_raw_handles", <<value>>, TRUE)
    /\ UNCHANGED <<hidden, marker, layers, listeners, nFired, calls, ret,
                   nPrompt, nMarker>>
    /\ UNCHANGED wkVars

GetRawHandles ==
    /\ ret' = filehandles
    /\ lastOp' = Op("get_raw_handles", << >>, TRUE)
    /\ UNCHANGED <<hidden, marker, layers, listeners, nFired, calls,
                   filehandles, nPrompt, nMarker>>
    /\ UNCHANGED wkVars

---------------------------------------------------------------------------
(* The page after DOMContentLoaded: the map exists, no marker, no click    *)
(* listener, and the #map container starts hidden.                         *)
InitUI ==
    /\ hidden = TRUE
    /\ marker = NoMarker
    /\ layers = {}
    /\ listeners = << >>
    /\ nFired = 0
    /\ calls = << >>
    /\ filehandles = EmptyMap
    /\ ret = EmptyMap
    /\ nPrompt = 0
    /\ nMarker = 0
    /\ lastOp = Op("load", << >>, TRUE)

---------------------------------------------------------------------------
(* The worker bridges (index.js:61-69, worker.js:1-12, worker.js:14-26).   *)
(* The three scripts differ in what the wrapper does once handle_message   *)
(* has completed: "result" posts its result (index.js:68), "marker" posts  *)
(* the literal "All done" (worker.js:8), "rebind" posts nothing and        *)
(* rebinds self.onmessage to wasm.handle_message (worker.js:22).           *)

Variants == {"result", "marker", "rebind"}

Payloads == {"p", "q"}

(* The external module's handle_message, a function of its argument alone. *)
handle_message(data) == <<"result", data>>

AllDone == <<"All done">>

nSent == Len(inbox) + Len(tasks) + Len(direct)

InFlight(t) == tasks[t].pc \in {"init", "handling"}

(* The parent posts a message to the worker. *)
Send(data) ==
    /\ nSent < MaxMsgs
    /\ inbox' = Append(inbox, [seq |-> nSent + 1, data |-> data])
    /\ UNCHANGED <<variant, onmessage, tasks, outbox, direct, nInit>>
    /\ UNCHANGED uiVars

(* The message the event loop hands to self.onmessage next. *)
nextMessageNewestFirst(q) == Len(q)

nextMessage(q) == 1

(* The event loop delivers a message to the current self.onmessage.  The   *)
(* wrapper starts init() and suspends at its first await; the rebound      *)
(* handler is wasm.handle_message itself, called with the event.           *)
Deliver ==
    /\ inbox # << >>
    /\ LET k == nextMessage(inbox)
           e == inbox[k]
       IN  /\ inbox' = [i \in 1..(Len(inbox) - 1) |->
                            IF i < k THEN inbox[i] ELSE inbox[i + 1]]
           /\ IF onmessage = "wrapper"
              THEN /\ tasks' = Append(tasks,
                          [seq |-> e.seq, data |-> e.data, pc |-> "init",
                           with |-> {t \in DOMAIN tasks : InFlight(t)}])
                   /\ nInit' = nInit + 1
                   /\ UNCHANGED direct
              ELSE /\ direct' = Append(direct, e)
                   /\ UNCHANGED <<tasks, nInit>>
    /\ UNCHANGED <<variant, onmessage, outbox>>
    /\ UNCHANGED uiVars

InitResolvedNoAwait(t) ==
    /\ t \in DOMAIN tasks
    /\ tasks[t].pc = "init"
    /\ tasks' = [tasks EXCEPT ![t].pc = "done"]
    /\ IF variant = "rebind"
       THEN /\ onmessage' = "handle_message"
            /\ UNCHANGED outbox
       ELSE /\ outbox' = Append(outbox,
                    [msg |-> IF variant = "result" THEN handle_message(tasks[t].data)
                             ELSE <<"All done">>,
                     from |-> tasks[t].seq])
            /\ UNCHANGED onmessage
    /\ UNCHANGED <<variant, inbox, direct, nInit>>
    /\ UNCHANGED uiVars

(* `await init(...)` resolves: the wrapper calls wasm.handle_message(e.data) *)
(* and suspends at the second await.                                       *)
InitResolved(t) ==
    /\ t \in DOMAIN tasks
    /\ tasks[t].pc = "init"
    /\ tasks' = [tasks EXCEPT ![t].pc = "handling"]
    /\ UNCHANGED <<variant, onmessage, inbox, outbox, direct, nInit>>
    /\ UNCHANGED uiVars

(* `await init(...)` rejects: the async wrapper ends with an unhandled     *)
(* rejection.                                                              *)
InitRejected(t) ==
    /\ t \in DOMAIN tasks
    /\ tasks[t].pc = "init"
    /\ tasks' = [tasks EXCEPT ![t].pc = "failed"]
    /\ UNCHANGED <<variant, onmessage, inbox, outbox, direct, nInit>>
    /\ UNCHANGED uiVars

(* self.postMessage(m) *)
postMessage(out, m, t) == Append(out, [msg |-> m, from |-> t])

(* The argument of self.postMessage in the wrapper run t. *)
replyOfLatestEvent(t) ==
    IF variant = "result" THEN handle_message(tasks[Len(tasks)].data) ELSE AllDone

reply(t) ==
    IF variant = "result" THEN handle_message(tasks[t].data) ELSE AllDone

HandleResolvedPostsAndRebinds(t) ==
    /\ t \in DOMAIN tasks
    /\ tasks[t].pc = "handling"
    /\ tasks' = [tasks EXCEPT ![t].pc = "done"]
    /\ outbox' = IF variant = "rebind" THEN outbox
                 ELSE postMessage(outbox, reply(t), tasks[t].seq)
    /\ onmessage' = IF variant = "result" THEN onmessage ELSE "handle_message"
    /\ UNCHANGED <<variant, inbox, direct, nInit>>
    /\ UNCHANGED uiVars

(* `await wasm.handle_message(e.data)` resolves: the rest of the wrapper.  *)
HandleResolved(t) ==
    /\ t \in DOMAIN tasks
    /\ tasks[t].pc = "handling"
    /\ tasks' = [tasks EXCEPT ![t].pc = "done"]
    /\ IF variant = "rebind"
       THEN /\ onmessage' = "handle_message"
            /\ UNCHANGED outbox
       ELSE /\ outbox' = postMessage(outbox, reply(t), tasks[t].seq)
            /\ UNCHANGED onmessage
    /\ UNCHANGED <<variant, inbox, direct, nInit>>
    /\ UNCHANGED uiVars

HandleRejectedThenPosts(t) ==
    /\ t \in DOMAIN tasks
    /\ tasks[t].pc = "handling"
    /\ tasks' = [tasks EXCEPT ![t].pc = "failed"]
    /\ outbox' = IF variant = "rebind" THEN outbox
                 ELSE postMessage(outbox, AllDone, tasks[t].seq)
    /\ UNCHANGED <<variant, onmessage, inbox, direct, nInit>>
    /\ UNCHANGED uiVars

(* `await wasm.handle_message(e.data)` rejects, or the call throws: the    *)
(* async wrapper ends with an unhandled rejection before its last          *)
(* statement.                                                              *)
HandleRejected(t) ==
    /\ t \in DOMAIN tasks
    /\ tasks[t].pc = "handling"
    /\ tasks' = [tasks EXCEPT ![t].pc = "failed"]
    /\ UNCHANGED <<variant, onmessage, inbox, outbox, direct, nInit>>
    /\ UNCHANGED uiVars

---------------------------------------------------------------------------
InitWorker ==
    /\ variant \in Variants
    /\ onmessage = "wrapper"
    /\ inbox = << >>
    /\ tasks = << >>
    /\ outbox = << >>
    /\ direct = << >>
    /\ nInit = 0

Init == InitUI /\ InitWorker

(* The page of index.js, whose worker script is index.js:61-69. *)
InitPage == Init /\ variant = "result"

(* The map picker. *)
Next ==
    \/ \E index \in Indexes : PromptCoords(index)
    \/ Timeout
    \/ \E e \in Clicks, throwAt \in 0..MaxPrompts : Click(e, throwAt)
    \/ \E c \in MarkerCoords : SetMarker(c[1], c[2])

Spec == InitPage /\ [][Next]_vars

(* The file-handle accessors. *)
NextHandles ==
    \/ \E value \in HandleMaps : SetRawHandles(value)
    \/ GetRawHandles

SpecHandles == InitPage /\ [][NextHandles]_vars

(* The worker bridge. *)
NextWorker ==
    \/ \E data \in Payloads : Send(data)
    \/ Deliver
    \/ \E t \in 1..MaxMsgs : InitResolved(t)
    \/ \E t \in 1..MaxMsgs : InitRejected(t)
    \/ \E t \in 1..MaxMsgs : HandleResolved(t)
    \/ \E t \in 1..MaxMsgs : HandleRejected(t)

SpecWorker == Init /\ [][NextWorker]_vars


---------------------------------------------------------------------------
(* Properties of the map picker, checked under Spec. *)

(* C1: after every set_marker call (the first, and every later one)        *)
(* exactly one marker is on the map, and it is the marker that call made,  *)
(* at that call's coordinates.                                             *)
C1_OneMarkerAfterSetMarker ==
    lastOp.op = "set_marker" =>
        /\ Cardinality(layers) = 1
        /\ layers = {marker}
        /\ marker.id = nMarker
        /\ <<marker.lat, marker.lng>> = lastOp.args

C1_Witness ==
    /\ lastOp.op = "set_marker"
    /\ nMarker >= 2
    /\ layers = {marker}

(* C2: when a click has been handled without failure, the container's      *)
(* hidden state is the one it had just before the prompt_coords call of    *)
(* each handler that processed the click.                                  *)
C2_RoundTripNeutral ==
    [][(lastOp'.op = "click" /\ lastOp'.ok) =>
          \A i \in DOMAIN listeners :
              (\A j \in DOMAIN listeners' : listeners'[j].id # listeners[i].id)
                  => hidden' = listeners[i].before]_vars

(* C3: once a click has been handled (its dispatch ran to completion) no   *)
(* click handler is left, and while none is installed nothing but          *)
(* prompt_coords installs one: every step that is not a prompt_coords call *)
(* leaves the update_coords calls, the visibility and the (empty) handler  *)
(* list unchanged, and a click also leaves the markers on the map alone.   *)
C3_OneShot ==
    /\ []((lastOp.op = "click" /\ lastOp.ok) => listeners = << >>)
    /\ [][(listeners = << >> /\ lastOp'.op # "prompt_coords") =>
             /\ listeners' = << >>
             /\ calls' = calls
             /\ hidden' = hidden
             /\ (lastOp'.op = "click" => layers' = layers)]_vars

(* A click was handled, and a later click at another place did nothing. *)
C3_Witness ==
    /\ nPrompt = 1
    /\ Len(calls) = 1
    /\ listeners = << >>
    /\ lastOp.op = "click"
    /\ lastOp.args[1] # calls[1].e
    /\ layers # {}

(* C6: the container is visible exactly when a click handler is installed. *)
C6_VisibleIffListening == (~hidden) <=> (listeners # << >>)

(* C7: at most one marker is on the map in every state, and a step that    *)
(* places a new marker leaves none of the markers that were on the map.    *)
C7_AtMostOneMarker ==
    /\ [](Cardinality(layers) <= 1)
    /\ [][nMarker' # nMarker => (layers \cap layers' = {} /\ layers' = {marker'})]_vars

(* A second marker replaced the first while a click handler was waiting. *)
C7_Witness ==
    /\ nMarker >= 2
    /\ Cardinality(layers) = 1
    /\ listeners # << >>
    /\ calls = << >>

(* C10: the latitude and longitude passed to update_coords are the clicked *)
(* values rounded to 8 fraction digits: each is the decimal numeral, with  *)
(* exactly 8 fraction digits, of the multiple of 10^-8 nearest to the      *)
(* clicked value (the one of larger magnitude when two are equally near).  *)
IsNearest(x, ip, fr) ==
    LET den == Pow(2, x.bits - FractionDigits)
        err == ((ip - x.int) * Pow(10, FractionDigits) + fr) * den
                   - x.num * Pow(5, FractionDigits)
        mag == IF err < 0 THEN -err ELSE err
    IN  /\ 2 * mag <= den
        /\ (2 * mag = den => err > 0)

Numeral(neg, ip, fr) ==
    (IF neg THEN "-" ELSE "") \o ToString(ip) \o "."
        \o Zeros(FractionDigits - Digits(fr)) \o ToString(fr)

IsRounded(x, s) ==
    LET lo == (x.num * Pow(5, FractionDigits)) \div Pow(2, x.bits - FractionDigits)
    IN  \E ip \in {x.int, x.int + 1} :
        \E fr \in {f \in (lo - 2)..(lo + 2) : 0 <= f /\ f < Pow(10, FractionDigits)} :
            /\ IsNearest(x, ip, fr)
            /\ s = Numeral(IsNegative(x), ip, fr)

C10_RoundedTo8Digits ==
    \A i \in DOMAIN calls :
        /\ IsRounded(calls[i].e.lat, calls[i].lat)
        /\ IsRounded(calls[i].e.lng, calls[i].lng)

(* Clicks at 48.857421875 / 2.3525390625 and at                            *)
(* -33.0029296875 / -0.001953125 were forwarded.                           *)
C10_Witness ==
    /\ \E i \in DOMAIN calls :
          calls[i].lat = "48.85742188" /\ calls[i].lng = "2.35253906"
    /\ \E i \in DOMAIN calls :
          calls[i].lat = "-33.00292969" /\ calls[i].lng = "-0.00195313"

(* The steps that are a prompt_coords call, and those that are a click.    *)
PromptStep == nPrompt' = nPrompt + 1
ClickStep == lastOp'.op = "click" /\ nFired' = nFired

(* C11: registration by prompt_coords is additive: every call adds one     *)
(* click handler and keeps those already installed, and a click whose      *)
(* dispatch completes calls update_coords once for each installed handler, *)
(* in registration order and with that handler's index, and leaves no      *)
(* handler installed.                                                      *)
C11_AdditiveRegistration ==
    /\ [][PromptStep =>
             /\ Len(listeners') = Len(listeners) + 1
             /\ SubSeq(listeners', 1, Len(listeners)) = listeners
             /\ listeners'[Len(listeners')].index = lastOp'.args[1]]_vars
    /\ [][(ClickStep /\ lastOp'.ok) =>
             /\ Len(calls') = Len(calls) + Len(listeners)
             /\ \A i \in DOMAIN listeners :
                   /\ calls'[Len(calls) + i].index = listeners[i].index
                   /\ calls'[Len(calls) + i].by = listeners[i].id
             /\ listeners' = << >>]_vars

(* Two prompt_coords calls with different indexes, then one click that     *)
(* called update_coords for both.                                          *)
C11_Witness ==
    /\ lastOp.op = "click"
    /\ lastOp.ok
    /\ nPrompt = 2
    /\ Len(calls) = 2
    /\ calls[1].by = 1
    /\ calls[2].by = 2
    /\ calls[1].index # calls[2].index
    /\ calls[1].e = calls[2].e
    /\ listeners = << >>

(* C12 as stated: a click is handled only by handlers of prompt_coords     *)
(* calls whose settle delay has elapsed and whose invalidateSize() has     *)
(* run.                                                                    *)
C12_HandledAfterResize ==
    [][ClickStep =>
          \A i \in (Len(calls) + 1)..Len(calls') : calls'[i].by \in sized]_vars

(* C12 amended: prompt_coords installs its click handler itself, before it *)
(* returns, while its settle delay is still pending and its layout         *)
(* recompute has not run; the recompute of a call runs only later, when    *)
(* that call's handler has been installed already.                         *)
C12_HandlerInstalledBeforeResize ==
    /\ [][PromptStep =>
             /\ \E j \in DOMAIN listeners' : listeners'[j].id = nPrompt'
             /\ nPrompt' \in timers'
             /\ nPrompt' \notin sized']_vars
    /\ [](\A id \in sized : id <= nPrompt)

(* A click was handled while no layout recompute had run yet. *)
C12_Witness ==
    /\ calls # << >>
    /\ calls[1].by = 1
    /\ lastOp.op = "click"
    /\ lastOp.ok
    /\ sized = {}
    /\ timers # {}

(* C16: a click that a handler has processed to the end leaves no marker   *)
(* on the map, whether or not set_marker had placed one before.            *)
C16_ClickClearsMarker ==
    [][(ClickStep /\ Len(listeners') < Len(listeners)) => layers' = {}]_vars

(* set_marker had placed a marker, and the handled click removed it. *)
C16_Witness ==
    /\ lastOp.op = "click"
    /\ lastOp.ok
    /\ calls # << >>
    /\ marker.id # 0
    /\ layers = {}

(* C17: when update_coords throws, the dispatch ends there and the handler *)
(* that made the call is still installed; if it was the first handler to   *)
(* run, the click left the markers, the visibility and the handlers as     *)
(* they were.  A click with a handler installed always calls update_coords *)
(* with the index of the first installed handler, so the next click        *)
(* repeats the call that threw.                                            *)
C17_ThrowLeavesStateUnchanged ==
    /\ [][(ClickStep /\ ~lastOp'.ok) =>
             /\ Len(calls') > Len(calls)
             /\ \E j \in DOMAIN listeners' :
                   /\ listeners'[j].id = calls'[Len(calls')].by
                   /\ listeners'[j].index = calls'[Len(calls')].index
             /\ listeners'[1].id = calls'[Len(calls')].by
             /\ Len(calls') = Len(calls) + 1 =>
                   /\ listeners' = listeners
                   /\ hidden' = hidden
                   /\ layers' = layers]_vars
    /\ [][(ClickStep /\ listeners # << >>) =>
             /\ Len(calls') > Len(calls)
             /\ calls'[Len(calls) + 1].index = listeners[1].index
             /\ calls'[Len(calls) + 1].by = listeners[1].id]_vars

(* update_coords threw with a marker on the map; the next click called it  *)
(* again for the same handler and completed.                               *)
C17_Witness ==
    /\ nPrompt = 1
    /\ Len(calls) = 2
    /\ calls[1].by = calls[2].by
    /\ calls[1].index = calls[2].index
    /\ lastOp.op = "click"
    /\ lastOp.ok
    /\ marker.id # 0
    /\ listeners = << >>

(* C18: the container is visible exactly when the number of installed      *)
(* click handlers is odd, and after a click whose dispatch completed it is *)
(* hidden with no handler installed.                                       *)
C18_VisibleIffOddHandlers ==
    /\ (~hidden) <=> (Len(listeners) % 2 = 1)
    /\ (lastOp.op = "click" /\ lastOp.ok) => (hidden /\ Len(listeners) = 0)

(* Three prompt_coords calls without a click left the container visible   *)
(* with three handlers; one click then ran and removed all three.          *)
C18_Witness ==
    /\ Len(calls) = 3
    /\ calls[1].by = 1
    /\ calls[3].by = 3
    /\ calls[1].e = calls[3].e
    /\ lastOp.op = "click"
    /\ lastOp.ok
    /\ hidden
    /\ listeners = << >>

---------------------------------------------------------------------------
(* Properties of the file-handle accessors, checked under SpecHandles. *)

(* C9: get_raw_handles() returns the value of the last set_raw_handles     *)
(* call: the value just set when it follows a set_raw_handles(v), the      *)
(* value the previous get returned when it follows a get, and the empty    *)
(* mapping when nothing has been set.                                      *)
C9_ReadAfterWrite ==
    [][lastOp'.op = "get_raw_handles" =>
          ret' = CASE lastOp.op = "set_raw_handles" -> lastOp.args[1]
                   [] lastOp.op = "get_raw_handles" -> ret
                   [] OTHER -> EmptyMap]_vars

(* A mapping that replaced another non-empty mapping was read back. *)
C9_Witness ==
    /\ lastOp.op = "get_raw_handles"
    /\ ret = [k \in {"b.jpg"} |-> "h2"]

---------------------------------------------------------------------------
(* Properties of the worker bridge, checked under SpecWorker. *)

TaskOf(seq) == CHOOSE t \in DOMAIN tasks : tasks[t].seq = seq

Posting == variant \in {"result", "marker"}

(* C4 as stated: the replies of the result-posting bridge are posted in    *)
(* the order the messages were sent.                                       *)
C4_SameOrder ==
    variant = "result" =>
        \A i, j \in DOMAIN outbox :
            outbox[i].from < outbox[j].from => i < j

(* C4 amended: the reply to an earlier message is posted before the reply  *)
(* to a later one whenever the earlier message was no longer in flight     *)
(* when the later one was delivered to the handler.                        *)
C4_SameOrderWhenNotOverlapping ==
    \A i, j \in DOMAIN outbox :
        (/\ outbox[i].from < outbox[j].from
         /\ outbox[i].from \notin tasks[TaskOf(outbox[j].from)].with) => i < j

C4_Witness ==
    /\ Posting
    /\ Len(outbox) = 2
    /\ outbox[1].from = 1
    /\ outbox[2].from = 2
    /\ tasks[TaskOf(2)].with = {}

(* C5: in the result-posting bridge every posted message is the result of  *)
(* handle_message on the payload of the message it answers, a message      *)
(* whose wrapper has run to completion has exactly one reply, and any      *)
(* other message has none.                                                 *)
C5_OneReplyFromOwnPayload ==
    variant = "result" =>
        /\ \A k \in DOMAIN outbox :
              \E t \in DOMAIN tasks :
                  /\ tasks[t].seq = outbox[k].from
                  /\ tasks[t].pc = "done"
                  /\ outbox[k].msg = handle_message(tasks[t].data)
        /\ \A t \in DOMAIN tasks :
              Cardinality({k \in DOMAIN outbox : outbox[k].from = tasks[t].seq})
                  = IF tasks[t].pc = "done" THEN 1 ELSE 0

(* Two messages with different payloads, in flight together, answered in   *)
(* the opposite order.                                                     *)
C5_Witness ==
    /\ variant = "result"
    /\ Len(outbox) = 2
    /\ outbox[1].from = 2
    /\ outbox[2].from = 1
    /\ outbox[1].msg # outbox[2].msg

(* C8: a message whose instantiation or handle_message call failed has no  *)
(* reply in any state, and its wrapper, ended by the unhandled rejection,  *)
(* never resumes.                                                          *)
C8_NoReplyOnFailure ==
    /\ [](\A t \in DOMAIN tasks : tasks[t].pc = "failed" =>
              \A k \in DOMAIN outbox : outbox[k].from # tasks[t].seq)
    /\ [][\A t \in DOMAIN tasks : tasks[t].pc = "failed" =>
              tasks'[t].pc = "failed"]_vars

(* One message failed, a later one was answered. *)
C8_Witness ==
    /\ Posting
    /\ Len(tasks) >= 2
    /\ tasks[1].pc = "failed"
    /\ tasks[2].pc = "done"
    /\ Len(outbox) = 1
    /\ inbox = << >>

(* C13: in the rebinding bridge the module is instantiated once at most,   *)
(* whatever messages arrive while the first one is being processed.        *)
C13_InstantiatedOnce == variant = "rebind" => nInit <= 1

(* C14 as stated: in the bridge that posts the completion marker only the  *)
(* first message runs the wrapper; every further message goes to           *)
(* handle_message directly.                                                *)
C14_MarkerThenDirect == variant = "marker" => Len(tasks) <= 1

(* C14 amended: the bridge that posts the completion marker never rebinds  *)
(* its handler: every message runs the wrapper, which posts the marker     *)
(* when it completes.  The bridge that rebinds posts nothing; its handler  *)
(* is wasm.handle_message from the moment a wrapper run has completed, and *)
(* only messages delivered after that go to handle_message directly.       *)
C14_MarkerWrapsRebindDoesNotPost ==
    /\ variant = "marker" =>
          /\ onmessage = "wrapper"
          /\ direct = << >>
          /\ \A t \in DOMAIN tasks :
                tasks[t].pc = "done" =>
                    \E k \in DOMAIN outbox :
                        outbox[k].from = tasks[t].seq /\ outbox[k].msg = AllDone
          /\ \A k \in DOMAIN outbox : outbox[k].msg = AllDone
    /\ variant = "rebind" =>
          /\ outbox = << >>
          /\ onmessage = "handle_message"
                <=> \E t \in DOMAIN tasks : tasks[t].pc = "done"
          /\ direct # << >> => onmessage = "handle_message"

(* The marker bridge answered two messages, both through the wrapper. *)
C14_Witness ==
    /\ variant = "marker"
    /\ Len(tasks) = 2
    /\ tasks[1].pc = "done"
    /\ tasks[2].pc = "done"
    /\ tasks[2].with = {}
    /\ Len(outbox) = 2

(* C15: a wrapper run starts by awaiting the instantiation, moves on to    *)
(* the handle_message call only from there, and ends (posting, in the      *)
(* posting bridges) only from the handle_message call: no reply is posted  *)
(* in a step other than the completion of that message's handle_message.   *)
C15_InitThenHandleThenPost ==
    /\ [][/\ \A t \in DOMAIN tasks :
                tasks'[t].pc # tasks[t].pc =>
                    <<tasks[t].pc, tasks'[t].pc>> \in
                        { <<"init", "handling">>, <<"init", "failed">>,
                          <<"handling", "done">>, <<"handling", "failed">> }
          /\ \A t \in DOMAIN tasks' \ DOMAIN tasks : tasks'[t].pc = "init"
          /\ \A k \in DOMAIN outbox' \ DOMAIN outbox :
                \E t \in DOMAIN tasks :
                    /\ tasks[t].seq = outbox'[k].from
                    /\ tasks[t].pc = "handling"
                    /\ tasks'[t].pc = "done"]_vars
    /\ [](Posting =>
            \A t \in DOMAIN tasks :
                tasks[t].pc = "done" <=>
                    \E k \in DOMAIN outbox : outbox[k].from = tasks[t].seq)

(* One message answered, one inside handle_message, one still              *)
(* instantiating.                                                          *)
C15_Witness ==
    /\ Posting
    /\ Len(tasks) = 3
    /\ tasks[1].pc = "init"
    /\ tasks[2].pc = "handling"
    /\ tasks[3].pc = "done"
    /\ Len(outbox) = 1

=============================================================================
